---- MODULE Spec2Model ----
(***************************************************************************)
(* Folder synchronization tool: one-way periodic mirroring of a source     *)
(* tree into a replica tree (src/main.py, src/utils.py).                   *)
(*                                                                         *)
(* A tree is a function from relative paths to nodes: "none" (no entry),   *)
(* "dir", or the byte content of a regular file.  The main thread, the     *)
(* worker threads of process_with_threads and the global lock are the      *)
(* processes of the state machine.                                         *)
(***************************************************************************)
EXTENDS Integers, Sequences, FiniteSets, TLC

\* ------------------------------------------------------------------ bounds
MaxWorkers == 2     \* cpu_count() ranges over 1..MaxWorkers
MaxPasses == 2      \* passes of main's loop that are explored
MaxLen == 4         \* longest entry list handed to get_items_chunks on its own
MaxChunks == 3      \* largest chunk count handed to get_items_chunks on its own

\* ------------------------------------------------------- the file systems
Contents == {"X", "Y"}
Paths == {"a", "d", "d/f"}
ROOT == "."
Parent == [p \in Paths |-> IF p = "d/f" THEN "d" ELSE ROOT]
Nodes == {"none", "dir"} \cup Contents
\* "a" is a regular file of one content wherever it exists; "d" and "d/f" may be a
\* directory or a file of either content
NodesAt == [p \in Paths |-> IF p = "a" THEN {"none", "X"} ELSE Nodes]

ValidTree(t) ==
    /\ \A p \in Paths : t[p] \in NodesAt[p]
    /\ \A p \in Paths : (t[p] # "none" /\ Parent[p] # ROOT) => t[Parent[p]] = "dir"

Trees == {t \in [Paths -> Nodes] : ValidTree(t)}
EmptyTree == [p \in Paths |-> "none"]

\* pathlib: exists / is_dir / is_file answer False when an ancestor is missing
\* or is a regular file (ENOENT and ENOTDIR are ignored)
ParentIsDir(fs, p) == IF Parent[p] = ROOT THEN TRUE ELSE fs[Parent[p]] = "dir"
ParentIsFile(fs, p) == IF Parent[p] = ROOT THEN FALSE ELSE fs[Parent[p]] \in Contents
Exists(fs, p) == fs[p] # "none" /\ ParentIsDir(fs, p)
IsDir(fs, p) == fs[p] = "dir" /\ ParentIsDir(fs, p)
IsFile(fs, p) == fs[p] \in Contents /\ ParentIsDir(fs, p)
Children(fs, p) == {q \in Paths : Parent[q] = p /\ fs[q] # "none"}

\* hashlib.md5 over the whole byte stream: equal contents, equal digests
Digest == [c \in Contents |-> <<"md5", c>>]

\* ------------------------------------------------------------- utils.py
NoExc == "none"
Outcome(fs, logs, exc) == [fs |-> fs, logs |-> logs, exc |-> exc]

\* calculate_checksum: the digest, or the error it logs and raises again
calculate_checksum(fs, p) ==
    IF IsFile(fs, p) THEN [digest |-> Digest[fs[p]], logs |-> {}, exc |-> NoExc]
    ELSE IF ~Exists(fs, p)
         THEN [digest |-> <<>>, logs |-> {<<"ERROR", "checksum: file not found">>},
               exc |-> "FileNotFoundError"]
         ELSE [digest |-> <<>>, logs |-> {<<"ERROR", "checksum: IOError">>},
               exc |-> "IsADirectoryError"]

\* Path.mkdir(parents=True, exist_ok=True), taken as one step: whatever runs
\* beside it outside the lock only adds directories, which exist_ok absorbs
RECURSIVE mkdir(_, _)
mkdir(fs, p) ==
    IF p = ROOT THEN [fs |-> fs, exc |-> NoExc]
    ELSE IF ParentIsDir(fs, p)
    THEN IF fs[p] = "none" THEN [fs |-> [fs EXCEPT ![p] = "dir"], exc |-> NoExc]
         ELSE IF fs[p] = "dir" THEN [fs |-> fs, exc |-> NoExc]
         ELSE [fs |-> fs, exc |-> "FileExistsError"]
    ELSE IF ParentIsFile(fs, p)
    THEN [fs |-> fs, exc |-> "NotADirectoryError"]
    ELSE LET up == mkdir(fs, Parent[p])
         IN  IF up.exc # NoExc THEN up
             ELSE [fs |-> [up.fs EXCEPT ![p] = "dir"], exc |-> NoExc]

\* create_folder after its exists() test found nothing: mkdir, log, or log and raise
create_folder_mkdir(fs, p) ==
    LET r == mkdir(fs, p)
    IN  IF r.exc = NoExc
        THEN Outcome(r.fs, {<<"INFO", "Created folder">>}, NoExc)
        ELSE Outcome(fs, {<<"ERROR", "Failed to create folder">>}, r.exc)

\* copy_or_replace_file: open src 'rb' and dest 'wb', stream the bytes; every
\* exception is caught and logged, none leaves the function
copy_or_replace_file(src, fs, p, replace) ==
    IF IsFile(src, p) /\ ParentIsDir(fs, p) /\ fs[p] # "dir"
    THEN Outcome([fs EXCEPT ![p] = src[p]],
                 {<<"INFO", IF replace THEN "replaced" ELSE "copied">>}, NoExc)
    ELSE Outcome(fs, {<<"ERROR", IF replace THEN "Failed to replace file"
                                            ELSE "Failed to copy file">>}, NoExc)

\* replicate_file overwriting an existing replica file without comparing digests
replicate_file_no_compare(src, fs, p) ==
    IF Exists(fs, p)
    THEN copy_or_replace_file(src, fs, p, TRUE) @@ [call |-> "replace"]
    ELSE copy_or_replace_file(src, fs, p, FALSE) @@ [call |-> "copy"]

\* replicate_file computing both digests before it looks whether the replica exists
replicate_file_digests_first(src, fs, p) ==
    LET cs == calculate_checksum(src, p)
        cr == calculate_checksum(fs, p)
    IN  IF cs.exc # NoExc THEN Outcome(fs, cs.logs, cs.exc) @@ [call |-> "none"]
        ELSE IF cr.exc # NoExc THEN Outcome(fs, cr.logs, cr.exc) @@ [call |-> "none"]
        ELSE IF cs.digest # cr.digest
        THEN copy_or_replace_file(src, fs, p, TRUE) @@ [call |-> "replace"]
        ELSE Outcome(fs, {}, NoExc) @@ [call |-> "none"]

\* replicate_file: what it does to the replica, what it logs, what it raises and
\* which copy_or_replace_file call it made ("copy", "replace" or "none")
replicate_file(src, fs, p) ==
    IF Exists(fs, p)
    THEN LET cs == calculate_checksum(src, p)
             cr == calculate_checksum(fs, p)
         IN  IF cs.exc # NoExc THEN Outcome(fs, cs.logs, cs.exc) @@ [call |-> "none"]
             ELSE IF cr.exc # NoExc
             THEN Outcome(fs, cr.logs, cr.exc) @@ [call |-> "none"]
             ELSE IF cs.digest # cr.digest
             THEN copy_or_replace_file(src, fs, p, TRUE) @@ [call |-> "replace"]
             ELSE Outcome(fs, {}, NoExc) @@ [call |-> "none"]
    ELSE copy_or_replace_file(src, fs, p, FALSE) @@ [call |-> "copy"]

\* delete_path: unlink a file; empty a directory entry by entry, then rmdir it;
\* nothing at all when the path is neither.  No exception leaves the function.
RECURSIVE delete_path(_, _)
RECURSIVE delete_items(_, _)
delete_items(r, items) ==
    IF items = {} THEN r
    ELSE LET item == CHOOSE q \in items : TRUE
             one == IF IsDir(r.fs, item)
                    THEN LET sub == delete_path(r.fs, item)
                         IN  [fs |-> sub.fs, logs |-> r.logs \cup sub.logs]
                    ELSE [fs |-> [r.fs EXCEPT ![item] = "none"], logs |-> r.logs]
         IN  delete_items(one, items \ {item})

delete_path(fs, p) ==
    IF IsFile(fs, p)
    THEN Outcome([fs EXCEPT ![p] = "none"], {<<"INFO", "Deleted file">>}, NoExc)
    ELSE IF IsDir(fs, p)
    THEN LET inner == delete_items([fs |-> fs, logs |-> {}], Children(fs, p))
         IN  Outcome([inner.fs EXCEPT ![p] = "none"],
                     inner.logs \cup {<<"INFO", "Deleted folder">>}, NoExc)
    ELSE Outcome(fs, {}, NoExc)

\* chunk_list: [seq[i::size] for i in range(size)]
Stride(seq, i, size) ==
    [j \in 1..((Len(seq) - i + size - 1) \div size) |-> seq[i + (j - 1) * size + 1]]

\* range(1, size + 1) in place of range(size)
chunk_list_shifted(seq, size) == [k \in 1..size |-> Stride(seq, k, size)]

chunk_list(seq, size) == [k \in 1..size |-> Stride(seq, k - 1, size)]

\* get_items_chunks, given the entries glob('**/*') listed: the flat list for one
\* thread, the chunks otherwise
get_items_chunks(listing, number_of_threads) ==
    IF number_of_threads = 1 THEN listing ELSE chunk_list(listing, number_of_threads)

\* glob('**/*'): the entries of the root in scandir's order, then those of each
\* directory below it, a directory before its own entries
Perms(S) ==
    {f \in [1..Cardinality(S) -> S] : \A i, j \in 1..Cardinality(S) : f[i] = f[j] => i = j}

glob(fs) ==
    {top \o low : top \in Perms({p \in Paths : Parent[p] = ROOT /\ Exists(fs, p)}),
                  low \in Perms({p \in Paths : Parent[p] # ROOT /\ Exists(fs, p)})}

\* ------------------------------------------------------------- main.py
VARIABLES
    source,             \* the source tree (never written: see the actions)
    replica,            \* the replica tree
    number_of_threads,  \* cpu_count()
    mainpc,             \* where the main thread is
    passes,             \* passes begun so far
    src_listing,        \* glob of the source at the start of the pass
    rep_listing,        \* glob of the replica at the start of the pass
    source_items,       \* get_items_chunks(source_path, number_of_threads)
    replica_items,      \* get_items_chunks(replica_path, number_of_threads)
    workers,            \* the calls of synchronize_folders / clean_up_replica of the pass
    lock,               \* the global Lock: 0 when free, else the holder's index
    log,                \* the records the logger has been given
    calls,              \* per path, the copy / replace / delete calls of the pass
    replica0            \* the replica tree as it was when the pass began

vars == <<source, replica, number_of_threads, mainpc, passes, src_listing, rep_listing,
          source_items, replica_items, workers, lock, log, calls, replica0>>

NoCalls == [p \in Paths |-> [copy |-> 0, replace |-> 0, delete |-> 0]]

\* one call of synchronize_folders ("sync") or clean_up_replica ("clean") on a chunk;
\* idx is the position of the for loop, pc the place inside the loop body
Call(kind, round, chunk) ==
    [kind |-> kind, round |-> round, items |-> chunk, idx |-> 1,
     pc |-> IF Len(chunk) = 0 THEN "done" ELSE "next"]

Advance(w) ==
    [w EXCEPT !.idx = @ + 1, !.pc = IF w.idx + 1 > Len(w.items) THEN "done" ELSE "next"]

Terminated(w) == w.pc \in {"done", "raised"}
AllTerminated == \A i \in DOMAIN workers : Terminated(workers[i])

\* the threads one round of process_with_threads starts: one per source chunk,
\* then one per replica chunk
StartThreads(round, src_chunks, rep_chunks) ==
    [k \in 1..Len(src_chunks) |-> Call("sync", round, src_chunks[k])]
    \o [k \in 1..Len(rep_chunks) |-> Call("clean", round, rep_chunks[k])]

Init ==
    /\ source \in Trees
    /\ replica \in Trees
    /\ number_of_threads \in 1..MaxWorkers
    /\ mainpc = "loop"
    /\ passes = 0
    /\ src_listing = <<>>
    /\ rep_listing = <<>>
    /\ source_items = <<>>
    /\ replica_items = <<>>
    /\ workers = <<>>
    /\ lock = 0
    /\ log = {}
    /\ calls = NoCalls
    /\ replica0 = replica

\* process_syncronization up to the first wait: both trees are listed and chunked;
\* with several threads round one is started, with one thread the main thread
\* enters synchronize_folders itself
process_syncronization ==
    /\ mainpc = "loop"
    /\ \E sl \in glob(source), rl \in glob(replica) :
          LET si == get_items_chunks(sl, number_of_threads)
              ri == get_items_chunks(rl, number_of_threads)
          IN  /\ src_listing' = sl
              /\ rep_listing' = rl
              /\ source_items' = si
              /\ replica_items' = ri
              /\ IF number_of_threads > 1
                 THEN /\ workers' = StartThreads(1, si, ri)
                      /\ mainpc' = "join1"
                 ELSE /\ workers' = <<Call("sync", 1, si)>>
                      /\ mainpc' = "sync"
    /\ passes' = passes + 1
    /\ calls' = NoCalls
    /\ replica0' = replica
    /\ UNCHANGED <<source, replica, number_of_threads, lock, log>>

\* a call runs in its own thread, or in the main thread while main is inside it
Running(i) ==
    /\ ~Terminated(workers[i])
    /\ number_of_threads = 1 => mainpc \in {"sync", "clean"}

\* the end of one loop body: the next entry, or the exception leaves the call.  In
\* a thread it ends the thread; in the main thread it reaches main's handler, which
\* logs it and returns from main
AfterItem(i, out) ==
    /\ replica' = out.fs
    /\ IF out.exc = NoExc
       THEN /\ workers' = [workers EXCEPT ![i] = Advance(@)]
            /\ log' = log \cup out.logs
            /\ mainpc' = mainpc
       ELSE /\ workers' = [workers EXCEPT ![i].pc = "raised"]
            /\ IF number_of_threads = 1
               THEN /\ log' = log \cup out.logs \cup {<<"ERROR", "Unexpected error occurred">>}
                    /\ mainpc' = "exited"
               ELSE /\ log' = log \cup out.logs
                    /\ mainpc' = mainpc

\* synchronize_folders, a directory entry: create_folder's exists() test
create_folder_exists(i) ==
    LET w == workers[i]
        item == w.items[w.idx]
    IN  /\ Running(i) /\ w.kind = "sync" /\ w.pc = "next"
        /\ IsDir(source, item)
        /\ workers' = [workers EXCEPT ![i] = IF Exists(replica, item) THEN Advance(@)
                                             ELSE [@ EXCEPT !.pc = "mkdir"]]
        /\ UNCHANGED <<source, replica, number_of_threads, mainpc, passes, src_listing,
                       rep_listing, source_items, replica_items, lock, log, calls, replica0>>

\* synchronize_folders, a directory entry: create_folder's mkdir, outside the lock
create_folder(i) ==
    LET w == workers[i]
        item == w.items[w.idx]
    IN  /\ Running(i) /\ w.kind = "sync" /\ w.pc = "mkdir"
        /\ AfterItem(i, create_folder_mkdir(replica, item))
        /\ UNCHANGED <<source, number_of_threads, passes, src_listing, rep_listing,
                       source_items, replica_items, lock, calls, replica0>>

\* synchronize_folders entering replicate_file without waiting for the lock
synchronize_folders_lock_not_waiting(i) ==
    LET w == workers[i]
        item == w.items[w.idx]
    IN  /\ Running(i) /\ w.kind = "sync" /\ w.pc = "next"
        /\ ~IsDir(source, item) /\ IsFile(source, item)
        /\ lock' = i
        /\ workers' = [workers EXCEPT ![i].pc = "locked"]
        /\ UNCHANGED <<source, replica, number_of_threads, mainpc, passes, src_listing,
                       rep_listing, source_items, replica_items, log, calls, replica0>>

\* synchronize_folders, a file entry: "with lock:" is entered
synchronize_folders_lock(i) ==
    LET w == workers[i]
        item == w.items[w.idx]
    IN  /\ Running(i) /\ w.kind = "sync" /\ w.pc = "next"
        /\ ~IsDir(source, item) /\ IsFile(source, item)
        /\ lock = 0
        /\ lock' = i
        /\ workers' = [workers EXCEPT ![i].pc = "locked"]
        /\ UNCHANGED <<source, replica, number_of_threads, mainpc, passes, src_listing,
                       rep_listing, source_items, replica_items, log, calls, replica0>>

\* synchronize_folders calling replicate_file with source and destination swapped
synchronize_folders_into_source(i) ==
    LET w == workers[i]
        item == w.items[w.idx]
        out == replicate_file(replica, source, item)
    IN  /\ Running(i) /\ w.kind = "sync" /\ w.pc = "locked"
        /\ lock = i
        /\ lock' = 0
        /\ source' = out.fs
        /\ log' = log \cup out.logs
        /\ workers' = [workers EXCEPT ![i] = IF out.exc = NoExc THEN Advance(@)
                                             ELSE [@ EXCEPT !.pc = "raised"]]
        /\ mainpc' = IF out.exc # NoExc /\ number_of_threads = 1 THEN "exited" ELSE mainpc
        /\ UNCHANGED <<replica, number_of_threads, passes, src_listing, rep_listing,
                       source_items, replica_items, calls, replica0>>

\* synchronize_folders with acquire() and release() around replicate_file and no
\* try/finally: an exception leaves the lock held
synchronize_folders_lock_kept(i) ==
    LET w == workers[i]
        item == w.items[w.idx]
        out == replicate_file(source, replica, item)
    IN  /\ Running(i) /\ w.kind = "sync" /\ w.pc = "locked"
        /\ lock = i
        /\ lock' = IF out.exc = NoExc THEN 0 ELSE i
        /\ calls' = IF out.call = "none" THEN calls
                    ELSE [calls EXCEPT ![item][out.call] = @ + 1]
        /\ AfterItem(i, out)
        /\ UNCHANGED <<source, number_of_threads, passes, src_listing, rep_listing,
                       source_items, replica_items, replica0>>

\* synchronize_folders, a file entry: replicate_file under the lock, which the
\* with statement releases on return and on an exception alike
synchronize_folders(i) ==
    LET w == workers[i]
        item == w.items[w.idx]
        out == replicate_file(source, replica, item)
    IN  /\ Running(i) /\ w.kind = "sync" /\ w.pc = "locked"
        /\ lock = i
        /\ lock' = 0
        /\ calls' = IF out.call = "none" THEN calls
                    ELSE [calls EXCEPT ![item][out.call] = @ + 1]
        /\ AfterItem(i, out)
        /\ UNCHANGED <<source, number_of_threads, passes, src_listing, rep_listing,
                       source_items, replica_items, replica0>>

\* clean_up_replica: "with lock:" is entered
clean_up_replica_lock(i) ==
    LET w == workers[i]
    IN  /\ Running(i) /\ w.kind = "clean" /\ w.pc = "next"
        /\ lock = 0
        /\ lock' = i
        /\ workers' = [workers EXCEPT ![i].pc = "locked"]
        /\ UNCHANGED <<source, replica, number_of_threads, mainpc, passes, src_listing,
                       rep_listing, source_items, replica_items, log, calls, replica0>>

\* clean_up_replica: under the lock, delete the entry if the source has no such path
clean_up_replica(i) ==
    LET w == workers[i]
        item == w.items[w.idx]
        gone == ~Exists(source, item)
        out == IF gone THEN delete_path(replica, item) ELSE Outcome(replica, {}, NoExc)
    IN  /\ Running(i) /\ w.kind = "clean" /\ w.pc = "locked"
        /\ lock = i
        /\ lock' = 0
        /\ calls' = IF gone THEN [calls EXCEPT ![item].delete = @ + 1] ELSE calls
        /\ AfterItem(i, out)
        /\ UNCHANGED <<source, number_of_threads, passes, src_listing, rep_listing,
                       source_items, replica_items, replica0>>

\* process_without_threads: synchronize_folders returned, clean_up_replica is called
process_without_threads ==
    /\ mainpc = "sync"
    /\ AllTerminated /\ workers[1].pc = "done"
    /\ workers' = Append(workers, Call("clean", 1, replica_items))
    /\ mainpc' = "clean"
    /\ UNCHANGED <<source, replica, number_of_threads, passes, src_listing, rep_listing,
                   source_items, replica_items, lock, log, calls, replica0>>

\* process_with_threads returning after its first round
process_with_threads_one_round ==
    /\ mainpc = "join1"
    /\ AllTerminated
    /\ log' = log \cup {<<"INFO", "Synchronization process completed successfully.">>}
    /\ mainpc' = "sleep"
    /\ UNCHANGED <<source, replica, number_of_threads, passes, src_listing, rep_listing,
                   source_items, replica_items, workers, lock, calls, replica0>>

\* process_with_threads starting round two without joining round one
process_with_threads_no_join ==
    /\ mainpc = "join1"
    /\ workers' = workers \o StartThreads(2, source_items, replica_items)
    /\ mainpc' = "join2"
    /\ UNCHANGED <<source, replica, number_of_threads, passes, src_listing, rep_listing,
                   source_items, replica_items, lock, log, calls, replica0>>

\* process_with_threads listing the replica again for round two
process_with_threads_relisted ==
    /\ mainpc = "join1"
    /\ AllTerminated
    /\ \E rl \in glob(replica) :
          workers' = workers \o StartThreads(2, source_items,
                                             get_items_chunks(rl, number_of_threads))
    /\ mainpc' = "join2"
    /\ UNCHANGED <<source, replica, number_of_threads, passes, src_listing, rep_listing,
                   source_items, replica_items, lock, log, calls, replica0>>

\* process_with_threads: every thread of round one is joined, round two is started
\* over the same chunks
process_with_threads ==
    /\ mainpc = "join1"
    /\ AllTerminated
    /\ workers' = workers \o StartThreads(2, source_items, replica_items)
    /\ mainpc' = "join2"
    /\ UNCHANGED <<source, replica, number_of_threads, passes, src_listing, rep_listing,
                   source_items, replica_items, lock, log, calls, replica0>>

\* the pass returns to main's loop, which logs its completion and sleeps
pass_completed ==
    /\ mainpc \in {"clean", "join2"}
    /\ AllTerminated
    /\ \A i \in DOMAIN workers : mainpc = "clean" => workers[i].pc = "done"
    /\ log' = log \cup {<<"INFO", "Synchronization process completed successfully.">>}
    /\ mainpc' = "sleep"
    /\ UNCHANGED <<source, replica, number_of_threads, passes, src_listing, rep_listing,
                   source_items, replica_items, workers, lock, calls, replica0>>

\* time.sleep(sync_interval) returns: the loop goes round
sleep_returns ==
    /\ mainpc = "sleep"
    /\ passes < MaxPasses
    /\ mainpc' = "loop"
    /\ UNCHANGED <<source, replica, number_of_threads, passes, src_listing, rep_listing,
                   source_items, replica_items, workers, lock, log, calls, replica0>>

\* an interrupt that is only noted, main going on with what it was doing
keyboard_interrupt_deferred ==
    /\ mainpc # "exited"
    /\ log' = log \cup {<<"INFO", "Program interrupted. Exiting...">>}
    /\ UNCHANGED <<source, replica, number_of_threads, mainpc, passes, src_listing,
                   rep_listing, source_items, replica_items, workers, lock, calls, replica0>>

\* KeyboardInterrupt is raised in the main thread wherever it is: main logs it and
\* returns.  A call the main thread was inside is abandoned (its with statement
\* releases the lock); started threads are not daemons and run on.
keyboard_interrupt ==
    /\ mainpc # "exited"
    /\ mainpc' = "exited"
    /\ log' = log \cup {<<"INFO", "Program interrupted. Exiting...">>}
    /\ IF number_of_threads = 1
       THEN /\ workers' = [i \in DOMAIN workers |->
                             IF Terminated(workers[i]) THEN workers[i]
                             ELSE [workers[i] EXCEPT !.pc = "raised"]]
            /\ lock' = 0
       ELSE UNCHANGED <<workers, lock>>
    /\ UNCHANGED <<source, replica, number_of_threads, passes, src_listing, rep_listing,
                   source_items, replica_items, calls, replica0>>

Next ==
    \/ process_syncronization
    \/ \E i \in DOMAIN workers : create_folder_exists(i)
    \/ \E i \in DOMAIN workers : create_folder(i)
    \/ \E i \in DOMAIN workers : synchronize_folders_lock(i)
    \/ \E i \in DOMAIN workers : synchronize_folders(i)
    \/ \E i \in DOMAIN workers : clean_up_replica_lock(i)
    \/ \E i \in DOMAIN workers : clean_up_replica(i)
    \/ process_without_threads
    \/ process_with_threads
    \/ pass_completed
    \/ sleep_returns
    \/ keyboard_interrupt

Spec == Init /\ [][Next]_vars

\* Scheduling: while some thread of the program can take a step, some thread is
\* run in the end; the interrupt and the end of the sleep are left to the
\* environment.
WorkerStep(i) ==
    \/ create_folder_exists(i)
    \/ create_folder(i)
    \/ synchronize_folders_lock(i)
    \/ synchronize_folders(i)
    \/ clean_up_replica_lock(i)
    \/ clean_up_replica(i)

MainStep == process_without_threads \/ process_with_threads \/ pass_completed

ProgramStep == MainStep \/ \E i \in DOMAIN workers : WorkerStep(i)

SpecFair == Spec /\ WF_vars(ProgramStep)

\* ---------------------------------------------- get_items_chunks on its own
\* The partitioning as a pure function: any entry list up to MaxLen (entries may
\* repeat), any chunk count up to MaxChunks, one application.
EntryLists == UNION {[1..n -> Paths] : n \in 0..MaxLen}

InitChunks ==
    /\ src_listing \in EntryLists
    /\ number_of_threads \in 1..MaxChunks
    /\ mainpc = "chunk"
    /\ source = EmptyTree
    /\ replica = EmptyTree
    /\ passes = 0
    /\ rep_listing = <<>>
    /\ source_items = <<>>
    /\ replica_items = <<>>
    /\ workers = <<>>
    /\ lock = 0
    /\ log = {}
    /\ calls = NoCalls
    /\ replica0 = EmptyTree

apply_get_items_chunks ==
    /\ mainpc = "chunk"
    /\ source_items' = get_items_chunks(src_listing, number_of_threads)
    /\ mainpc' = "chunked"
    /\ UNCHANGED <<source, replica, number_of_threads, passes, src_listing, rep_listing,
                   replica_items, workers, lock, log, calls, replica0>>

NextChunks == apply_get_items_chunks

SpecChunks == InitChunks /\ [][NextChunks]_vars

\* ------------------------------------------- process_without_threads as a function
\* The single-threaded pass computed in one piece from the trees and the two
\* listings: synchronize_folders over the source list, then, unless an exception
\* left it, clean_up_replica over the replica list.
RECURSIVE synchronize_folders_all(_, _, _, _)
synchronize_folders_all(src, fs, items, k) ==
    IF k > Len(items) THEN [fs |-> fs, exc |-> NoExc]
    ELSE LET item == items[k]
             out == IF IsDir(src, item)
                    THEN IF Exists(fs, item) THEN Outcome(fs, {}, NoExc)
                         ELSE create_folder_mkdir(fs, item)
                    ELSE IF IsFile(src, item) THEN replicate_file(src, fs, item)
                    ELSE Outcome(fs, {}, NoExc)
         IN  IF out.exc # NoExc THEN [fs |-> out.fs, exc |-> out.exc]
             ELSE synchronize_folders_all(src, out.fs, items, k + 1)

RECURSIVE clean_up_replica_all(_, _, _, _)
clean_up_replica_all(src, fs, items, k) ==
    IF k > Len(items) THEN fs
    ELSE clean_up_replica_all(src,
                              IF Exists(src, items[k]) THEN fs
                              ELSE delete_path(fs, items[k]).fs,
                              items, k + 1)

without_threads_result(src, fs, src_list, rep_list) ==
    LET s == synchronize_folders_all(src, fs, src_list, 1)
    IN  IF s.exc # NoExc THEN s.fs ELSE clean_up_replica_all(src, s.fs, rep_list, 1)

\* ------------------------------------------------------------ properties
Interrupted == <<"INFO", "Program interrupted. Exiting...">> \in log
\* the pass returned to main's loop
PassCompleted == mainpc = "sleep"
\* the pass is over: it returned, or an exception took it (and main) down
PassOver == IF mainpc = "sleep" THEN TRUE ELSE mainpc = "exited" /\ ~Interrupted

SameDigest(fs1, fs2, p) ==
    IsFile(fs1, p) /\ IsFile(fs2, p) /\ Digest[fs1[p]] = Digest[fs2[p]]

Mirrors(src, rep) ==
    /\ \A p \in Paths : IsFile(src, p) => SameDigest(src, rep, p)
    /\ \A p \in Paths : Exists(rep, p) => Exists(src, p)

\* a call has begun work on its chunk
Began(w) == IF w.idx > 1 THEN TRUE ELSE w.pc \in {"mkdir", "locked", "raised"}

\* the single-threaded path of the model computes what without_threads_result does
SequentialAgrees ==
    (number_of_threads = 1 /\ PassOver)
        => replica = without_threads_result(source, replica0, src_listing, rep_listing)

\* C1: when a pass has completed (source static), every source file is in the
\* replica with an equal digest and every replica entry has a source entry, for
\* any initial replica, files facing directories included.
C1_PassMirrors == PassCompleted => Mirrors(source, replica)

\* C2: from an empty replica, after one pass every source file is in the replica
\* with an equal digest and the replica's directories are the source's, for
\* every number of threads and every interleaving.
C2_ConvergenceFromEmpty ==
    (PassCompleted /\ replica0 = EmptyTree) =>
        /\ \A p \in Paths : IsFile(source, p) => SameDigest(source, replica, p)
        /\ \A p \in Paths : IsDir(source, p) <=> IsDir(replica, p)

\* a pass of the thread path from an empty replica in which the first copy of d/f
\* found no directory d yet and round two copied it
C2_Witness ==
    /\ PassCompleted /\ replica0 = EmptyTree /\ number_of_threads > 1
    /\ IsFile(source, "d/f") /\ IsFile(source, "a")
    /\ calls["d/f"].copy = 2
    /\ replica = source

\* C3: in a pass after a completed pass (source unchanged) there is no call of
\* copy_or_replace_file and no call of delete_path.
C3_SecondPassIdle == passes >= 2 => calls = NoCalls

\* the two trees have the same entries of the same kinds
SameShape(fs1, fs2) ==
    \A p \in Paths : /\ IsDir(fs1, p) <=> IsDir(fs2, p)
                     /\ IsFile(fs1, p) <=> IsFile(fs2, p)
\* the files whose content in the source differed from the replica's when the pass began
Changed == {p \in Paths : IsFile(source, p) /\ IsFile(replica0, p)
                            /\ Digest[source[p]] # Digest[replica0[p]]}

\* C4: a pass that starts from a replica equal to the source except for the
\* content of files overwrites each file whose content differs exactly once (in
\* the thread path too, which runs each phase twice) and each file whose content
\* is the same not at all.
C4_ChangeDetection ==
    (PassCompleted /\ SameShape(source, replica0)) =>
        \A p \in Paths : calls[p].replace = IF p \in Changed THEN 1 ELSE 0

\* the thread path (two rounds) has overwritten the one changed file d/f once and
\* left the unchanged file a alone
C4_Witness ==
    /\ PassCompleted /\ number_of_threads > 1 /\ SameShape(source, replica0)
    /\ Changed = {"d/f"} /\ IsFile(source, "a")
    /\ calls["d/f"].replace = 1 /\ calls["a"].replace = 0
    /\ replica = source

\* C5: once a pass is over, nothing that was in the replica when it began and is
\* not in the source is left, whatever the propagate phase met.
C5_Pruned ==
    PassOver => \A p \in Paths : (Exists(replica0, p) /\ ~Exists(source, p))
                                    => ~Exists(replica, p)

\* C6: a failing entry does not stop the entries after it in its chunk, nor the
\* rest of the pass: when all calls have ended each has gone through its whole
\* chunk, and no exception ends main.
C6_FailureIsolated ==
    ~Interrupted =>
        /\ mainpc # "exited"
        /\ (AllTerminated /\ PassCompleted) =>
              \A i \in DOMAIN workers : workers[i].idx >= Len(workers[i].items)

\* C7: after main has logged an exception that escaped a pass, its loop is still
\* running (sleeping, or in a later pass).
C7_SchedulerSurvives ==
    <<"ERROR", "Unexpected error occurred">> \in log => mainpc # "exited"

\* C8: the thread path leaves the replica as the single-threaded path would have
\* left it from the same trees and listings.
C8_PathEquivalence ==
    (number_of_threads > 1 /\ PassCompleted) =>
        replica = without_threads_result(source, replica0, src_listing, rep_listing)

\* the number of entries in all chunks together
ChunkLengths(chunks) ==
    LET RECURSIVE total(_)
        total(k) == IF k = 0 THEN 0 ELSE Len(chunks[k]) + total(k - 1)
    IN  total(Len(chunks))

C10_Barrier ==
    \A c, s \in DOMAIN workers :
        (workers[c].kind = "clean" /\ Began(workers[c]) /\ workers[s].kind = "sync")
            => Terminated(workers[s])

\* C10 amended: in the single-threaded path clean_up_replica is entered only after
\* synchronize_folders has returned; in the thread path the barrier stands between
\* the rounds: every call of round one has ended before any call of round two exists.
C10_RoundBarrier ==
    /\ number_of_threads = 1 =>
          \A c, s \in DOMAIN workers :
              (workers[c].kind = "clean" /\ workers[s].kind = "sync") => workers[s].pc = "done"
    /\ number_of_threads > 1 =>
          \A i, j \in DOMAIN workers :
              (workers[i].round = 1 /\ workers[j].round = 2) => Terminated(workers[i])

\* round two is under way: one of its prune threads has begun, after a prune thread
\* of round one did work too
C10_Witness ==
    /\ number_of_threads > 1
    /\ \E j \in DOMAIN workers :
          workers[j].round = 2 /\ workers[j].kind = "clean" /\ Began(workers[j])
    /\ \E p \in Paths : calls[p].delete > 0

\* C11: every pass runs both phases, propagate and prune, in both paths, also when
\* a phase has no work and when an entry of the propagate phase fails: once the
\* pass is over a synchronize_folders call and a clean_up_replica call were made.
C11_BothPhases ==
    PassOver => /\ \E i \in DOMAIN workers : workers[i].kind = "sync"
                /\ \E i \in DOMAIN workers : workers[i].kind = "clean"

\* the chunks of the calls of one round, in the order the calls were started
RoundChunks(kind, round) ==
    LET made == SelectSeq(workers, LAMBDA w : w.kind = kind /\ w.round = round)
    IN  [k \in DOMAIN made |-> made[k].items]

\* C12: a completed pass of the thread path is two rounds, each one propagate call
\* per source chunk and one prune call per replica chunk, both rounds over the
\* chunks of the listings taken when the pass began; a completed single-threaded
\* pass is one propagate call and one prune call.
C12_DoubleExecution ==
    PassCompleted =>
        /\ rep_listing \in glob(replica0)
        /\ source_items = get_items_chunks(src_listing, number_of_threads)
        /\ replica_items = get_items_chunks(rep_listing, number_of_threads)
        /\ IF number_of_threads = 1
           THEN /\ Len(workers) = 2
                /\ RoundChunks("sync", 1) = <<source_items>>
                /\ RoundChunks("clean", 1) = <<replica_items>>
           ELSE /\ Len(workers) = 4 * number_of_threads
                /\ \A r \in {1, 2} : /\ RoundChunks("sync", r) = source_items
                                     /\ RoundChunks("clean", r) = replica_items

\* round two went over the listing of the pass's start: delete_path was called a
\* second time for an entry that round one had deleted
C12_Witness ==
    /\ PassCompleted /\ number_of_threads > 1
    /\ Exists(replica0, "a") /\ ~Exists(replica, "a")
    /\ calls["a"].delete = 2

\* the calls that are inside a critical section
InLock == {i \in DOMAIN workers : workers[i].pc = "locked"}

\* C13: at most one call is inside replicate_file or inside the source test and
\* delete_path, and it is the holder of the lock; a call inside create_folder's
\* mkdir does not hold the lock.
C13_MutualExclusion ==
    /\ Cardinality(InLock) <= 1
    /\ \A i \in InLock : lock = i
    /\ \A i \in DOMAIN workers : workers[i].pc = "mkdir" => lock # i

\* one thread is inside create_folder's mkdir while another holds the lock
C13_Witness ==
    \E i, j \in DOMAIN workers :
        /\ workers[i].pc = "mkdir"
        /\ workers[j].pc = "locked" /\ lock = j

\* the step in which call i leaves its critical section by itself (not because an
\* interrupt takes the main thread out of it)
LeavesLock(i) ==
    /\ workers[i].pc = "locked"
    /\ workers'[i].pc # "locked"
    /\ Interrupted' => Interrupted

\* C14: replicate_file on a replica path that does not exist calls the copy and
\* computes no digest (none is logged as failed or raised, and the source content
\* is written when the path's directory is there); on a replica file whose digest
\* differs it overwrites the file with the source content; on a replica file of
\* equal digest it writes nothing.
C14_ReplicateDecision ==
    [][\A i \in DOMAIN workers :
          (workers[i].kind = "sync" /\ LeavesLock(i)) =>
              LET item == workers[i].items[workers[i].idx]
              IN  IF ~Exists(replica, item)
                  THEN /\ calls' = [calls EXCEPT ![item].copy = @ + 1]
                       /\ workers'[i].pc # "raised"
                       /\ log' \ log \subseteq {<<"INFO", "copied">>,
                                                <<"ERROR", "Failed to copy file">>}
                       /\ replica' = IF ParentIsDir(replica, item)
                                     THEN [replica EXCEPT ![item] = source[item]]
                                     ELSE replica
                  ELSE IF IsFile(replica, item)
                  THEN IF Digest[source[item]] # Digest[replica[item]]
                       THEN /\ calls' = [calls EXCEPT ![item].replace = @ + 1]
                            /\ replica' = [replica EXCEPT ![item] = source[item]]
                       ELSE /\ calls' = calls
                            /\ replica' = replica
                  ELSE TRUE]_vars

\* one pass of the thread path met all three cases: a was absent and is copied, d/f
\* differed and is overwritten, and round two found equal digests and wrote nothing
C14_Witness ==
    /\ PassCompleted /\ number_of_threads > 1
    /\ ~Exists(replica0, "a") /\ Changed = {"d/f"}
    /\ calls["a"] = [copy |-> 1, replace |-> 0, delete |-> 0]
    /\ calls["d/f"] = [copy |-> 0, replace |-> 1, delete |-> 0]
    /\ replica = source

\* C15: a failure inside replicate_file, of a checksum or of the copy, leaves
\* replicate_file as an exception (the call ends raised), and the entry is not
\* handed to the copy again in the same pass.
C15_FailurePropagates ==
    [][\A i \in DOMAIN workers :
          (workers[i].kind = "sync" /\ LeavesLock(i)) =>
              LET item == workers[i].items[workers[i].idx]
                  out == replicate_file(source, replica, item)
              IN  /\ (\E r \in out.logs : r[1] = "ERROR") => workers'[i].pc = "raised"
                  /\ calls'[item].copy <= 1]_vars

\* C16: when the prune phase comes to an entry that is in neither tree any more,
\* delete_path raises nothing and leaves the replica as it is, the call goes on
\* to its next entry, and a warning record is logged.
C16_IdempotentDeletion ==
    [][\A i \in DOMAIN workers :
          (workers[i].kind = "clean" /\ LeavesLock(i)) =>
              LET item == workers[i].items[workers[i].idx]
              IN  (~Exists(source, item) /\ ~Exists(replica, item)) =>
                      /\ replica' = replica
                      /\ workers'[i] = Advance(workers[i])
                      /\ \E r \in log' : r[1] = "WARNING"]_vars

\* C17 as stated: an interrupt does not cut a pass short.  Once the interrupt has
\* come and nothing runs any more, the pass that had begun has made all its calls
\* and none was broken off.
C17_PassFinishes ==
    (Interrupted /\ passes >= 1 /\ AllTerminated) =>
        IF number_of_threads = 1
        THEN Len(workers) = 2 /\ \A i \in DOMAIN workers : workers[i].pc = "done"
        ELSE Len(workers) = 4 * number_of_threads

\* C17 amended: the interrupt ends main at once.  From the interrupt on main has
\* returned, no pass and no call is started; in the single-threaded path the call
\* main was in is broken off with the lock released and the replica is touched
\* no more, in the thread path only the threads already started go on.
C17_InterruptEndsLoop ==
    [][Interrupted' =>
          /\ mainpc' = "exited"
          /\ passes' = passes
          /\ Len(workers') = Len(workers)
          /\ number_of_threads = 1 =>
                /\ \A i \in DOMAIN workers : Terminated(workers'[i])
                /\ lock' = 0
                /\ replica' = replica /\ calls' = calls]_vars

\* a single-threaded pass from an empty replica broken off by the interrupt after
\* a was copied: d/f never reaches the replica and the prune phase never runs
C17_Witness ==
    /\ Interrupted /\ number_of_threads = 1 /\ passes = 1
    /\ replica0 = EmptyTree /\ IsFile(source, "d/f")
    /\ Len(workers) = 1 /\ workers[1].pc = "raised"
    /\ calls["a"].copy = 1 /\ ~Exists(replica, "d/f")

\* C18: every source directory a propagate call has handled is a directory in the
\* replica, and no propagate call is ended by an exception at a directory entry.
C18_DirectoryPropagated ==
    \A i \in DOMAIN workers :
        LET w == workers[i]
        IN  w.kind = "sync" =>
                /\ \A k \in 1..Len(w.items) :
                      (k < w.idx /\ IsDir(source, w.items[k])) => IsDir(replica, w.items[k])
                /\ (w.pc = "raised" /\ ~(number_of_threads = 1 /\ Interrupted))
                      => ~IsDir(source, w.items[w.idx])

\* C19: no step of a pass, whatever it creates, writes or deletes, changes the
\* source tree.
C19_SourceUntouched == [][source' = source]_vars

\* a completed pass that created the directory d, copied d/f and deleted a
C19_Witness ==
    /\ PassCompleted
    /\ <<"INFO", "Created folder">> \in log
    /\ calls["d/f"].copy >= 1 /\ calls["a"].delete >= 1
    /\ ~Exists(replica0, "d") /\ Exists(replica0, "a")
    /\ replica = source

\* something of a pass is still to be done: main is inside the pass, a call has
\* not ended, or the lock is held
Unfinished ==
    IF mainpc \in {"sync", "clean", "join1", "join2"} THEN TRUE
    ELSE IF ~AllTerminated THEN TRUE ELSE lock # 0

\* how far a pass has come: calls started, entries handled, steps within an entry,
\* and the main thread's place
Progress ==
    LET Rank(pc) == IF pc = "next" THEN 0 ELSE IF pc \in {"mkdir", "locked"} THEN 1 ELSE 2
        RECURSIVE Work(_)
        Work(k) == IF k = 0 THEN 0
                   ELSE 3 * workers[k].idx + Rank(workers[k].pc) + Work(k - 1)
    IN  Work(Len(workers))
        + (IF mainpc \in {"clean", "join2"} THEN 1
           ELSE IF mainpc \in {"sleep", "exited"} THEN 2 ELSE 0)

\* C20: a pass cannot hang.  The lock is held only by a call that is inside its
\* critical section (it is released on return and on an exception); while
\* anything of a pass is unfinished some thread of the program can take a step;
\* every such step brings the pass forward, so it ends after finitely many; and
\* in the thread path nothing but an interrupt keeps main from returning.
C20_PassTerminates ==
    /\ [](lock # 0 => (lock \in DOMAIN workers /\ workers[lock].pc = "locked"))
    /\ []((number_of_threads > 1 /\ ~Interrupted) => mainpc # "exited")
    /\ [](Unfinished => ENABLED ProgramStep)
    /\ [][ProgramStep => Progress' > Progress]_vars

\* the same as a liveness property under SpecFair: a pass that is begun ends
PassEventuallyEnds == Unfinished ~> ~Unfinished

\* replicate_file raised inside the critical section of a call of round one, and
\* a call of round two holds the lock after it
C20_Witness ==
    \E i, j \in DOMAIN workers :
        /\ workers[i].kind = "sync" /\ workers[i].round = 1 /\ workers[i].pc = "raised"
        /\ IsFile(source, workers[i].items[workers[i].idx])
        /\ workers[j].round = 2 /\ workers[j].pc = "locked" /\ lock = j
====
